---- MODULE Spec2Model ----
(***************************************************************************)
(* gcplistforeach: the concurrent fetch-and-paginate engine of _main       *)
(* (src/main.go, lines 444-665; the earlier variant at lines 114-335 has   *)
(* the same producer loop and worker closure, with --filter-error in the   *)
(* place of --include-error).                                              *)
(*                                                                         *)
(* One producer (the body of _main) decodes input records, expands each    *)
(* into seeds, acquires one unit of the weighted semaphore per seed and    *)
(* starts one errgroup goroutine per seed.  Each goroutine runs the worker *)
(* closure: build the request, log, retry loop (backoff.Continue, rl.Take, *)
(* client.Do, classify), read and decode the body, paginate, emit.         *)
(***************************************************************************)
EXTENDS Integers, Sequences, FiniteSets, TLC

\* ---------------------------------------------------------------- bounds
\* seeds the input expands to, at most
MaxSeeds == 3
\* seeds of the input in the pagination specification
PageSeeds == 2
\* records the input holds, at most
MaxInputs == 1
\* records of the input in the pagination specification
PageInputs == 2
\* seeds of the input in the termination specification
LiveSeeds == 2
MaxParallelism == 2
\* 200 pages one worker may receive (the endpoint then stops offering a cursor)
MaxPages == 2
\* retries the backoff controller grants for one page after the first attempt: the
\* policy is built without a retry limit of its own, and the controller of the library
\* then stops after its default number of retries
MaxRetries == 1

Seeds == 0 .. (MaxSeeds - 1)

\* ------------------------------------------------- decoded JSON values
\* interface{} values of a decoded body, tagged by their dynamic type
Arr(x) == [t |-> "arr", a |-> x, s |-> ""]
Str(x) == [t |-> "str", a |-> <<>>, s |-> x]
Num == [t |-> "num", a |-> <<>>, s |-> ""]

\* map[string]interface{} with no key
EmptyMap == [k \in {} |-> Num]

\* m with key k set to v
MapSet(m, k, v) == [x \in (DOMAIN m) \cup {k} |-> IF x = k THEN v ELSE m[x]]

\* i[k].([]interface{}) : <<value, ok>>
AsSlice(m, k) ==
    IF k \in DOMAIN m /\ m[k].t = "arr" THEN <<m[k].a, TRUE>> ELSE <<(<<>>), FALSE>>

\* i[k].(string) : <<value, ok>>
AsString(m, k) ==
    IF k \in DOMAIN m /\ m[k].t = "str" THEN <<m[k].s, TRUE>> ELSE <<"", FALSE>>

\* a Go slice: nil, or a backing array with elements
NilSlice == [isNil |-> TRUE, elems |-> <<>>]

\* an append that puts the new page in front of the pages before it
GoAppendFront(c, xs) ==
    IF xs = <<>> THEN c ELSE [isNil |-> FALSE, elems |-> xs \o c.elems]

\* append(c, xs...): appending nothing to a nil slice leaves it nil
GoAppend(c, xs) ==
    IF xs = <<>> THEN c ELSE [isNil |-> FALSE, elems |-> c.elems \o xs]

\* ------------------------------------------------------- the endpoint
StatusOK == 200
StatusTooManyRequests == 429
StatusNotFound == 404
StatusInternalServerError == 500

ItemsKey == "items"
TokenKey == "nextPageToken"

ItemsValues == {Arr(<<>>), Arr(<<1, 2>>), Arr(<<3>>)}
TokenValues == {Str(""), Str("t")}

\* decoded bodies a 200 page may carry: each key absent or present, and one body
\* whose values have another type than the worker reads them as
PageBodies ==
    {EmptyMap}
    \cup {MapSet(EmptyMap, ItemsKey, v) : v \in ItemsValues}
    \cup {MapSet(EmptyMap, TokenKey, v) : v \in TokenValues}
    \cup {MapSet(MapSet(EmptyMap, ItemsKey, v), TokenKey, w) :
              v \in ItemsValues, w \in TokenValues}
    \cup {MapSet(MapSet(EmptyMap, ItemsKey, Num), TokenKey, Num)}

\* the only page of a list that has one item
OnePageBodies == {MapSet(EmptyMap, ItemsKey, Arr(<<3>>))}

\* decoded body of an error response
ErrorBody == MapSet(EmptyMap, "error", Str("e"))

\* how reading and decoding the body of a response ends
BodyOutcomes == {"ok", "readerr", "notjson"}

\* *http.Response == nil
NilResp == [isNil |-> TRUE, StatusCode |-> 0, body |-> EmptyMap, rd |-> "ok"]
Resp(st, b, rd) == [isNil |-> FALSE, StatusCode |-> st, body |-> b, rd |-> rd]

\* output{} zero value
ZeroOutput == [Input |-> 0, Response |-> EmptyMap]

VARIABLES
    opts,       \* the parsed options
    env,        \* the surroundings: bodies the endpoint serves, seeds and records of the input
    proc,       \* the process: "running", "panicking", "crashed", "exited"
    mainRet,    \* what _main returned: "none" while it runs, "nil" or an error
    ppc,        \* the producer's position
    nin,        \* input records decoded so far
    count,      \* count: seeds produced so far
    semCur,     \* sem.cur: capacity units held
    ctxDone,    \* the errgroup context is cancelled
    egErr,      \* g.err of the errgroup: "nil" or the first error
    worker,     \* per seed: the goroutine of its worker closure
    output,     \* records written to the output stream, in order
    writers     \* (history) the seed of each record of output, in order

vars == <<opts, env, proc, mainRet, ppc, nin, count, semCur, ctxDone, egErr, worker,
          output, writers>>

\* ------------------------------------------------------------ options
\* parseOpts: --auto-collection and --collection are exclusive
Options ==
    {o \in [Parallelism : 1 .. MaxParallelism, Execute : BOOLEAN, Verbose : BOOLEAN,
            IncludeError : BOOLEAN, CollectionName : {"", ItemsKey},
            AutoCollection : BOOLEAN] :
        ~(o.AutoCollection /\ o.CollectionName # "")}

\* a diagnostic line written to the log stream, and whether muStderr was held for it
LogLine(l, h) == [line |-> l, locked |-> h]
NoLog == LogLine("", FALSE)

\* the line the retry loop writes for a response: log.Printf of "retry url" for a 429
\* and of "error url" for another 4xx, neither between muStderr.Lock() and Unlock()
StatusLog(st) ==
    IF st = StatusTooManyRequests THEN LogLine("retry url", FALSE)
    ELSE IF st >= 400 /\ st < 500 THEN LogLine("error url", FALSE)
    ELSE NoLog

\* a worker closure that was not started: its captured variables and its locals
\*   pc              position: "idle", "request", "continue", "take", "do",
\*                   "emit", "encode", "returned", "done", "panicked", "killed"
\*   input           the input record the seed came from
\*   badUrl          baseUrl does not parse
\*   collectionName, nextPageToken, collection, result: as in the closure
\*   resp, rerr      what the retry closure holds or returned
\*   err             what the worker closure returned
\*   status          (history) StatusCode of the last response received, 0 before
\*   retries         attempts the backoff controller of this page granted
\*   pages           (history) the 200 bodies decoded, in order
\*   logged          (history) "do url" lines written
\*   took, called    (history) rl.Take and client.Do calls made for this page
\*   log             (history) the diagnostic line of the worker's last step
IdleWorker ==
    [pc |-> "idle", input |-> 0, badUrl |-> FALSE, collectionName |-> "",
     nextPageToken |-> "", collection |-> NilSlice, resp |-> NilResp, rerr |-> "nil",
     result |-> ZeroOutput, err |-> "nil", status |-> 0, retries |-> 0, pages |-> <<>>,
     logged |-> 0, took |-> 0, called |-> 0, log |-> NoLog]

InitWith(os, e) ==
    /\ opts \in os
    /\ env = e
    /\ proc = "running"
    /\ mainRet = "none"
    /\ ppc = "next"
    /\ nin = 0
    /\ count = 0
    /\ semCur = 0
    /\ ctxDone = FALSE
    /\ egErr = "nil"
    /\ worker = [s \in Seeds |-> IdleWorker]
    /\ output = <<>>
    /\ writers = <<>>

Init == InitWith(Options, [bodies |-> OnePageBodies, nseeds |-> MaxSeeds, ninputs |-> MaxInputs])

\* goroutines run until the process ends
Alive == proc \in {"running", "panicking"}

\* ----------------------------------------------------------- producer
\* the goroutines of the errgroup when the process ends: those that have not ended
\* are gone where they stood
Killed ==
    worker' = [s \in Seeds |->
                  IF worker[s].pc \in {"idle", "done", "panicked"} THEN worker[s]
                  ELSE [IdleWorker EXCEPT !.pc = "killed"]]

\* _main returns err: main returns, or panics with err, and the process ends
MainReturn(err) ==
    /\ mainRet' = err
    /\ ppc' = "returned"
    /\ proc' = IF err = "nil" THEN "exited" ELSE "crashed"
    /\ Killed

\* the collectionName of a seed whose baseUrl parses; path is the last path element
CollectionNameOf(o, path) ==
    IF o.CollectionName # "" THEN o.CollectionName
    ELSE IF o.AutoCollection THEN path
    ELSE ""

\* the producer loop up to its next seed: run.Next() of the record at hand, and
\* dec.Decode(&input) of further records while run.Next() has no more values
\*   - dec.Decode gives io.EOF
\*   - dec.Decode gives another error
\*   - run.Next() gives a value that is no string
\*   - run.Next() gives a string, from the record at hand or from a later one
Produce ==
    /\ Alive /\ ppc = "next"
    /\ \/ /\ ppc' = "wait"
          /\ \E n \in nin .. env.ninputs : nin' = n
          /\ UNCHANGED <<mainRet, proc, count, worker>>
       \/ /\ MainReturn("decode input")
          /\ UNCHANGED <<nin, count>>
       \/ /\ \E n \in nin .. env.ninputs : n >= 1 /\ nin' = n
          /\ MainReturn("not string")
          /\ UNCHANGED count
       \/ /\ count < env.nseeds
          /\ count' = count + 1
          /\ \E n \in nin .. env.ninputs, bad \in BOOLEAN, path \in {"", ItemsKey} :
                /\ n >= 1
                /\ nin' = n
                /\ IF opts.CollectionName = "" /\ opts.AutoCollection /\ bad
                   THEN \* url.Parse(baseUrl) fails
                        MainReturn("url parse")
                   ELSE /\ worker' = [worker EXCEPT ![count] =
                                         [@ EXCEPT !.input = n, !.badUrl = bad,
                                                   !.collectionName =
                                                       CollectionNameOf(opts, path)]]
                        /\ ppc' = "acquire"
                        /\ UNCHANGED <<mainRet, proc>>
    /\ UNCHANGED <<opts, env, semCur, ctxDone, egErr, output, writers>>

\* a semaphore that hands out one unit more than its size
CanAcquireOneMore == semCur <= opts.Parallelism

\* whether sem.Acquire(ctx, 1) finds a free unit
CanAcquire == semCur < opts.Parallelism

\* a producer that starts the goroutine and holds no unit for it
StartWorkerNoUnit(s) ==
    /\ semCur' = semCur
    /\ worker' = [worker EXCEPT ![s].pc = "request"]
    /\ ppc' = "next"

\* the unit is taken and eg.Go(worker) starts the goroutine of the seed
StartWorker(s) ==
    /\ semCur' = semCur + 1
    /\ worker' = [worker EXCEPT ![s].pc = "request"]
    /\ ppc' = "next"

\* a producer that calls eg.Go(worker) without acquiring a unit first
AcquireNoWait ==
    /\ Alive /\ ppc = "acquire"
    /\ StartWorker(count - 1)
    /\ UNCHANGED <<opts, env, proc, mainRet, nin, count, ctxDone, egErr, output, writers>>

\* sem.Acquire(ctx, 1) finds a free unit, then eg.Go(worker); or it has to wait
Acquire ==
    /\ Alive /\ ppc = "acquire"
    /\ IF CanAcquire
       THEN StartWorker(count - 1)
       ELSE /\ ppc' = "acquire_wait"
            /\ UNCHANGED <<semCur, worker>>
    /\ UNCHANGED <<opts, env, proc, mainRet, nin, count, ctxDone, egErr, output, writers>>

\* a semaphore whose release wakes no waiter
AcquireNeverWoken == FALSE /\ UNCHANGED vars

\* the waiting sem.Acquire is handed a released unit, then eg.Go(worker)
AcquireReady ==
    /\ Alive /\ ppc = "acquire_wait"
    /\ CanAcquire
    /\ StartWorker(count - 1)
    /\ UNCHANGED <<opts, env, proc, mainRet, nin, count, ctxDone, egErr, output, writers>>

\* the waiting sem.Acquire sees ctx.Done(): _main returns ctx.Err()
AcquireCancelled ==
    /\ Alive /\ ppc = "acquire_wait"
    /\ ctxDone
    /\ MainReturn("context canceled")
    /\ UNCHANGED <<opts, env, nin, count, semCur, ctxDone, egErr, output, writers>>

\* eg.Wait(): every goroutine of the group has ended; _main returns g.err
Wait ==
    /\ Alive /\ ppc = "wait"
    /\ \A s \in Seeds : worker[s].pc \in {"idle", "done"}
    /\ MainReturn(egErr)
    /\ ctxDone' = TRUE
    /\ UNCHANGED <<opts, env, nin, count, semCur, egErr, output, writers>>

\* ------------------------------------------------------------- worker
\* a worker closure that returned err: its locals are gone, what it did is kept
Returned(w, err) ==
    [IdleWorker EXCEPT !.pc = "returned", !.err = err, !.status = w.status,
                       !.logged = w.logged, !.log = w.log]

\* a worker closure that returns without releasing its unit
ReturnNoRelease(s, w, err) ==
    /\ worker' = [worker EXCEPT ![s] = Returned(w, err)]
    /\ UNCHANGED <<semCur, proc>>

\* the worker closure returns err: its deferred sem.Release(1) runs, its locals die
Return(s, w, err) ==
    /\ worker' = [worker EXCEPT ![s] = Returned(w, err)]
    /\ semCur' = semCur - 1
    /\ UNCHANGED proc

\* resp.Body of a nil resp: the goroutine panics; its deferred sem.Release(1) runs
\* and the runtime then ends the process
Panic(s, w) ==
    /\ worker' = [worker EXCEPT ![s] =
                     [IdleWorker EXCEPT !.pc = "panicked", !.rerr = w.rerr]]
    /\ semCur' = semCur - 1
    /\ proc' = "panicking"

\* the worker closure goes on as w
Goto(s, w) ==
    /\ worker' = [worker EXCEPT ![s] = w]
    /\ UNCHANGED <<semCur, proc>>

\* a worker that takes every run for an executing one
DryRunNever(o) == FALSE

\* if !opts.Execute { return nil }
DryRun(o) == ~o.Execute

\* top of the page loop: http.NewRequest, the "do url" line, the dry-run return,
\* backoffPolicy.Start(ctx)
Request(s) ==
    /\ Alive /\ worker[s].pc = "request"
    /\ LET w == worker[s]
           lg == IF ~opts.Execute \/ opts.Verbose
                 THEN [w EXCEPT !.logged = @ + 1, !.log = LogLine("do url", TRUE)]
                 ELSE [w EXCEPT !.log = NoLog]
       IN  IF w.badUrl
           THEN Return(s, w, "new request")
           ELSE IF DryRun(opts)
           THEN Return(s, lg, "nil")
           ELSE Goto(s, [lg EXCEPT !.pc = "continue", !.retries = 0, !.resp = NilResp,
                                   !.took = 0, !.called = 0])
    /\ UNCHANGED <<opts, env, mainRet, ppc, nin, count, ctxDone, egErr, output, writers>>

\* backoff.Continue(backoffCtl) grants the first attempt or one more retry
ContinueTrue(s) ==
    /\ Alive /\ worker[s].pc = "continue"
    /\ worker[s].retries <= MaxRetries
    /\ Goto(s, [worker[s] EXCEPT !.pc = "take", !.retries = @ + 1, !.resp = NilResp])
    /\ UNCHANGED <<opts, env, mainRet, ppc, nin, count, ctxDone, egErr, output, writers>>

\* a retry loop that goes to the network call without rl.Take()
TakeSkipped(s) ==
    /\ Alive /\ worker[s].pc = "take"
    /\ Goto(s, [worker[s] EXCEPT !.pc = "do"])
    /\ UNCHANGED <<opts, env, mainRet, ppc, nin, count, ctxDone, egErr, output, writers>>

\* rl.Take()
Take(s) ==
    /\ Alive /\ worker[s].pc = "take"
    /\ Goto(s, [worker[s] EXCEPT !.pc = "do", !.took = @ + 1])
    /\ UNCHANGED <<opts, env, mainRet, ppc, nin, count, ctxDone, egErr, output, writers>>

\* an if-chain without the 429 branch: a 429 is one more 4xx
ClassifyNoRetry429(st) ==
    IF st = StatusOK THEN "return"
    ELSE IF st >= 400 /\ st < 500 THEN "return"
    ELSE "continue"

\* an if-chain without the 4xx branch: every status but 200 is retried
ClassifyRetry4xx(st) ==
    IF st = StatusOK THEN "return" ELSE "continue"

\* the if-chain on resp.StatusCode in the retry loop: "return" leaves the retry
\* closure with the response, "continue" goes back to backoff.Continue
Classify(st) ==
    IF st = StatusOK THEN "return"
    ELSE IF st = StatusTooManyRequests THEN "continue"
    ELSE IF st >= 400 /\ st < 500 THEN "return"
    ELSE "continue"

\* the responses the endpoint may give to the next request of a worker that
\* decoded n pages
Responses(n) ==
    {Resp(StatusOK, b, "ok") : b \in
        {b \in env.bodies : n + 1 >= MaxPages => ~AsString(b, TokenKey)[2]}}
    \cup {Resp(StatusOK, EmptyMap, rd) : rd \in BodyOutcomes \ {"ok"}}
    \cup {Resp(StatusNotFound, IF rd = "ok" THEN ErrorBody ELSE EmptyMap, rd) :
              rd \in BodyOutcomes}
    \cup {Resp(st, ErrorBody, "ok") : st \in {StatusTooManyRequests, StatusInternalServerError}}

\* a response map that holds the key whatever collection is
BuildResponseAlways(name, c) == MapSet(EmptyMap, name, Arr(c.elems))

\* the response map of a finished pagination: the key is left out of it when
\* collection is nil
BuildResponse(name, c) ==
    IF ~c.isNil THEN MapSet(EmptyMap, name, Arr(c.elems)) ELSE EmptyMap

\* a worker that drops no response
DroppedNever(o, st) == FALSE

\* whether a response that was read and decoded is dropped without a result
Dropped(o, st) == ~o.IncludeError /\ st # StatusOK

\* whether the page loop goes round again after a decoded 200 body
NextPage(body) == AsString(body, TokenKey)[2]

\* after the retry closure returned w.resp, w.rerr (rerr is not looked at):
\* io.ReadAll(resp.Body), json.Unmarshal, the drop of a non-200 response, the raw
\* result, the append of the page and the cursor
Process(s, w) ==
    LET r == w.resp
        c == AsSlice(r.body, w.collectionName)
        appended == IF c[2] THEN GoAppend(w.collection, c[1]) ELSE w.collection
        pg == IF r.StatusCode = StatusOK THEN Append(w.pages, r.body) ELSE w.pages
    IN  IF r.isNil
        THEN Panic(s, w)
        ELSE IF r.rd # "ok"
        THEN Return(s, w, IF r.rd = "readerr" THEN "read body" ELSE "unmarshal")
        ELSE IF Dropped(opts, r.StatusCode)
        THEN Return(s, w, "nil")
        ELSE IF w.collectionName = "" \/ r.StatusCode # StatusOK
        THEN Goto(s, [w EXCEPT !.pc = "emit", !.pages = pg,
                               !.result = [Input |-> w.input, Response |-> r.body]])
        ELSE IF NextPage(r.body)
        THEN Goto(s, [w EXCEPT !.pc = "request", !.pages = pg,
                               !.collection = appended,
                               !.nextPageToken = AsString(r.body, TokenKey)[1]])
        ELSE Goto(s, [w EXCEPT !.pc = "emit", !.pages = pg, !.collection = appended,
                               !.result = [Input |-> w.input, Response |->
                                              BuildResponse(w.collectionName, appended)]])

\* backoff.Continue(backoffCtl) is false (ctx is done, or the retries are used up):
\* the retry closure returns nil, errors.New("backoff finally failed")
ContinueFalse(s) ==
    /\ Alive /\ worker[s].pc = "continue"
    /\ ctxDone \/ worker[s].retries > MaxRetries
    /\ Process(s, [worker[s] EXCEPT !.resp = NilResp, !.rerr = "backoff finally failed"])
    /\ UNCHANGED <<opts, env, mainRet, ppc, nin, count, ctxDone, egErr, output, writers>>

\* client.Do(req) fails: the retry closure returns nil, err
DoError(s) ==
    /\ Alive /\ worker[s].pc = "do"
    /\ Process(s, [worker[s] EXCEPT !.called = @ + 1, !.resp = NilResp,
                                   !.rerr = "transport"])
    /\ UNCHANGED <<opts, env, mainRet, ppc, nin, count, ctxDone, egErr, output, writers>>

\* client.Do(req) answers, and the retry loop classifies the status
DoResponse(s) ==
    /\ Alive /\ worker[s].pc = "do"
    /\ \E r \in Responses(Len(worker[s].pages)) :
          IF Classify(r.StatusCode) = "return"
          THEN Process(s, [worker[s] EXCEPT !.called = @ + 1, !.resp = r,
                                            !.status = r.StatusCode,
                                            !.log = StatusLog(r.StatusCode)])
          ELSE Goto(s, [worker[s] EXCEPT !.pc = "continue", !.called = @ + 1, !.resp = r,
                                         !.status = r.StatusCode,
                                         !.log = StatusLog(r.StatusCode)])
    /\ UNCHANGED <<opts, env, mainRet, ppc, nin, count, ctxDone, egErr, output, writers>>

\* a mutex that is never held
StdoutNeverLocked == FALSE

\* muStdout is held by the worker that is between muStdout.Lock() and the deferred
\* muStdout.Unlock()
StdoutLocked == \E s \in Seeds : worker[s].pc = "encode"

\* muStdout.Lock() of the worker that left the page loop with its result
EmitLock(s) ==
    /\ Alive /\ worker[s].pc = "emit"
    /\ ~StdoutLocked
    /\ Goto(s, [worker[s] EXCEPT !.pc = "encode"])
    /\ UNCHANGED <<opts, env, mainRet, ppc, nin, count, ctxDone, egErr, output, writers>>

\* enc.Encode(result) writes the record; the deferred muStdout.Unlock() runs and the
\* worker returns nil
EmitOk(s) ==
    /\ Alive /\ worker[s].pc = "encode"
    /\ output' = Append(output, worker[s].result)
    /\ writers' = Append(writers, s)
    /\ Return(s, worker[s], "nil")
    /\ UNCHANGED <<opts, env, mainRet, ppc, nin, count, ctxDone, egErr>>

\* enc.Encode(result) fails: no record is written, and the worker returns the error
EmitError(s) ==
    /\ Alive /\ worker[s].pc = "encode"
    /\ Return(s, worker[s], "encode")
    /\ UNCHANGED <<opts, env, mainRet, ppc, nin, count, ctxDone, egErr, output, writers>>

\* the errgroup's goroutine after the worker closure returned: the first error is
\* kept and cancels the context; wg.Done()
GroupDone(s) ==
    /\ Alive /\ worker[s].pc = "returned"
    /\ worker' = [worker EXCEPT ![s] = [IdleWorker EXCEPT !.pc = "done"]]
    /\ IF worker[s].err # "nil" /\ egErr = "nil"
       THEN egErr' = worker[s].err /\ ctxDone' = TRUE
       ELSE UNCHANGED <<egErr, ctxDone>>
    /\ UNCHANGED <<opts, env, proc, mainRet, ppc, nin, count, semCur, output, writers>>

\* the runtime ends the process of a panicking goroutine
Crash ==
    /\ proc = "panicking"
    /\ proc' = "crashed"
    /\ ppc' = "killed"
    /\ Killed
    /\ UNCHANGED <<opts, env, mainRet, nin, count, semCur, ctxDone, egErr, output, writers>>

Next ==
    \/ Produce
    \/ Acquire
    \/ AcquireReady
    \/ AcquireCancelled
    \/ Wait
    \/ Crash
    \/ \E s \in Seeds :
          \/ Request(s)
          \/ ContinueTrue(s)
          \/ ContinueFalse(s)
          \/ Take(s)
          \/ DoError(s)
          \/ DoResponse(s)
          \/ EmitLock(s)
          \/ EmitOk(s)
          \/ EmitError(s)
          \/ GroupDone(s)

Spec == Init /\ [][Next]_vars

\* the pagination of one worker at a time, against an endpoint that serves every body
PageInit ==
    InitWith({o \in Options : o.Parallelism = 1 /\ o.Execute /\ ~o.Verbose},
             [bodies |-> PageBodies, nseeds |-> PageSeeds, ninputs |-> PageInputs])

PageSpec == PageInit /\ [][Next]_vars

\* one worker at a time in execute mode, under a scheduler that lets a goroutine that
\* can take a step take one
LiveInit ==
    InitWith({o \in Options : o.Parallelism = 1 /\ o.Execute /\ ~o.Verbose},
             [bodies |-> OnePageBodies, nseeds |-> LiveSeeds, ninputs |-> MaxInputs])

LiveSpec == LiveInit /\ [][Next]_vars /\ WF_vars(Next)

\* --------------------------------------------------------- properties
\* seeds whose worker closure was started and has not ended
InFlight ==
    {s \in Seeds : worker[s].pc \in {"request", "continue", "take", "do", "emit", "encode"}}

\* the worker closure of seed s was started
Started(s) == worker[s].pc # "idle"

\* the worker closure of seed s ended (it returned or panicked, or the process ended)
Finished(s) == worker[s].pc \in {"returned", "done", "panicked", "killed"}

\* records of output that seed s wrote
Emitted(s) == Cardinality({i \in DOMAIN writers : writers[i] = s})

\* the entries under key name of the pages, in the order the pages were fetched
RECURSIVE ItemsOf(_, _)
ItemsOf(pages, name) ==
    IF pages = <<>> THEN <<>>
    ELSE AsSlice(Head(pages), name)[1] \o ItemsOf(Tail(pages), name)

\* C1: at every moment at most Parallelism workers are in flight, a worker being in
\* flight from the moment it is started until it has finished
C1_AtMostParallelismInFlight ==
    /\ Cardinality(InFlight) <= opts.Parallelism
    /\ semCur <= opts.Parallelism

\* two workers in flight at parallelism 2 while the producer waits with a third seed
C1_Witness ==
    /\ opts.Parallelism = 2
    /\ Cardinality(InFlight) = 2
    /\ ppc = "acquire_wait"

\* C2: with parallelism 1 the workers run in the order the seeds were produced: when
\* the worker of seed j has been started, the worker of every earlier seed has finished
C2_SequentialInProductionOrder ==
    opts.Parallelism = 1 =>
        \A i, j \in Seeds : i < j /\ Started(j) => Finished(i)

\* at parallelism 1 the second seed's request is at the network call after the first
\* seed's worker wrote its record and ended
C2_Witness ==
    /\ opts.Parallelism = 1
    /\ worker[1].pc = "do"
    /\ worker[0].pc = "done"
    /\ writers = <<0>>

\* C3: with a collection key, the record a worker emits after a run of 200 pages holds
\* under that key the entries of the pages in the order fetched (whatever retries came
\* in between), and holds the seed's input
C3_MergedCollectionIsConcatenation ==
    \A s \in Seeds :
        LET w == worker[s]
            all == ItemsOf(w.pages, w.collectionName)
        IN  w.pc = "emit" /\ w.collectionName # "" /\ w.status = StatusOK =>
                /\ w.result.Input = w.input
                /\ all # <<>> => w.result.Response =
                                     MapSet(EmptyMap, w.collectionName, Arr(all))

\* pages [1,2] with cursor "t" and [3] without one, the second page after one retry,
\* merged to [1,2,3]
C3_Witness ==
    \E s \in Seeds :
        /\ worker[s].pc = "emit"
        /\ worker[s].called = 2
        /\ worker[s].pages =
               <<MapSet(MapSet(EmptyMap, ItemsKey, Arr(<<1, 2>>)), TokenKey, Str("t")),
                 MapSet(EmptyMap, ItemsKey, Arr(<<3>>))>>
        /\ worker[s].result.Response = MapSet(EmptyMap, ItemsKey, Arr(<<1, 2, 3>>))

\* C4: a page whose nextPageToken is absent or empty ends the pagination: after such a
\* page the worker requests no further page
C4_EmptyCursorEndsPagination ==
    \A s \in Seeds :
        LET w == worker[s]
        IN  /\ w.pages # <<>>
            /\ AsString(w.pages[Len(w.pages)], TokenKey)[1] = ""
            => w.pc \notin {"request", "continue", "take", "do"}

\* C5: a 429 response is never the response a record is built from: the worker that
\* holds one is back at the retry loop with no result, and from there it either
\* requests the same page again or ends without a record
C5_TooManyRequestsNeverEmitted ==
    \A s \in Seeds :
        LET w == worker[s]
        IN  /\ w.resp.StatusCode = StatusTooManyRequests =>
                   w.pc = "continue" /\ w.result = ZeroOutput
            /\ w.status = StatusTooManyRequests =>
                   w.pc \in {"continue", "take", "do"}

\* after a 429 the worker is at the network call for the same page a second time
C5_Witness ==
    \E s \in Seeds :
        /\ worker[s].status = StatusTooManyRequests
        /\ worker[s].pc = "do"
        /\ worker[s].called = 1

\* C6 as the specification states it: after a 4xx response other than 429 the worker
\* requests nothing more, emits exactly one record with the raw body and the seed's
\* input, and returns no error
C6_ClientErrorEmitsOneRawResult ==
    \A s \in Seeds :
        LET w == worker[s]
        IN  w.status = StatusNotFound =>
                \/ /\ w.pc \in {"emit", "encode"}
                   /\ w.result = [Input |-> w.input, Response |-> w.resp.body]
                   /\ Emitted(s) = 0
                \/ /\ w.pc = "returned"
                   /\ w.err = "nil"
                   /\ Emitted(s) = 1

\* C6 amended: after a 4xx response other than 429 the worker requests nothing more;
\* with --include-error it emits exactly one record with the raw body and the seed's
\* input and returns no error unless writing the record fails; without it the worker
\* emits nothing and returns no error; a body that cannot be read or decoded makes the
\* worker return that error and emit nothing
C6_ClientErrorEndsSeed ==
    \A s \in Seeds :
        LET w == worker[s]
        IN  w.status = StatusNotFound =>
                \/ /\ w.pc \in {"emit", "encode"}
                   /\ opts.IncludeError
                   /\ w.result = [Input |-> w.input, Response |-> w.resp.body]
                   /\ Emitted(s) = 0
                \/ /\ w.pc = "returned"
                   /\ w.err = "nil"
                   /\ Emitted(s) = IF opts.IncludeError THEN 1 ELSE 0
                \/ /\ w.pc = "returned"
                   /\ w.err \in {"read body", "unmarshal"}
                   /\ Emitted(s) = 0
                \/ /\ w.pc = "returned"
                   /\ w.err = "encode"
                   /\ opts.IncludeError
                   /\ Emitted(s) = 0

\* with --include-error a 404 ended the first seed with one record, the raw error body
C6_Witness ==
    /\ opts.IncludeError
    /\ worker[0].status = StatusNotFound
    /\ worker[0].pc = "returned"
    /\ worker[0].err = "nil"
    /\ writers = <<0>>
    /\ output[1].Response = ErrorBody

\* C7: with a collection key, the record emitted after a run of 200 pages holds the key
\* exactly when some page contributed an entry: when none did, the response is the
\* empty map and never the key with an empty sequence
C7_EmptyCollectionOmitsKey ==
    \A s \in Seeds :
        LET w == worker[s]
            all == ItemsOf(w.pages, w.collectionName)
        IN  w.pc = "emit" /\ w.collectionName # "" /\ w.status = StatusOK =>
                /\ all = <<>> => w.result.Response = EmptyMap
                /\ w.collectionName \in DOMAIN w.result.Response =>
                       w.result.Response[w.collectionName].a # <<>>

\* two pages whose items are empty sequences, merged to a response without the key
C7_Witness ==
    \E s \in Seeds :
        /\ worker[s].pc = "emit"
        /\ worker[s].collectionName = ItemsKey
        /\ worker[s].pages =
               <<MapSet(MapSet(EmptyMap, ItemsKey, Arr(<<>>)), TokenKey, Str("t")),
                 MapSet(EmptyMap, ItemsKey, Arr(<<>>))>>
        /\ worker[s].result.Response = EmptyMap

\* what a dry run never does: take a rate-limiter slot, call the network, build or
\* write a record, log a seed twice
DryRunIdle ==
    /\ output = <<>>
    /\ \A s \in Seeds :
          /\ worker[s].took = 0
          /\ worker[s].called = 0
          /\ worker[s].logged <= 1
          /\ worker[s].pc \notin {"continue", "take", "do", "emit", "encode", "panicked"}

\* C8 as the specification states it: without --execute no worker takes a slot, calls
\* the network or produces a record, and each worker logs its request once and returns
\* no error
C8_DryRunOnlyLogs ==
    ~opts.Execute =>
        /\ DryRunIdle
        /\ \A s \in Seeds :
              worker[s].pc = "returned" => worker[s].err = "nil" /\ worker[s].logged = 1

\* C8 amended: without --execute no worker takes a slot, calls the network or produces
\* a record; a worker whose request can be built logs it once and returns no error, and
\* a worker whose seed is no well-formed URL returns that error and logs nothing
C8_DryRunLogsOrRejects ==
    ~opts.Execute =>
        /\ DryRunIdle
        /\ \A s \in Seeds :
              worker[s].pc = "returned" =>
                 \/ worker[s].err = "nil" /\ worker[s].logged = 1
                 \/ worker[s].err = "new request" /\ worker[s].logged = 0

\* a dry run in which one worker logged its request and another rejected its seed
C8_Witness ==
    /\ ~opts.Execute
    /\ worker[0].pc = "returned" /\ worker[0].err = "nil" /\ worker[0].logged = 1
    /\ worker[1].pc = "returned" /\ worker[1].err = "new request"

\* C9 as the specification states it: in execute mode every seed whose worker returned
\* has exactly one record in the output
C9_ExactlyOneResultPerSeed ==
    opts.Execute =>
        \A s \in Seeds : worker[s].pc \in {"returned", "done"} => Emitted(s) = 1

\* C9 amended: no seed has more than one record in the output, and in execute mode a
\* worker that returned wrote its one record exactly when it returned no error and its
\* last response was a 200 or --include-error is set
C9_AtMostOneResultPerSeed ==
    \A s \in Seeds :
        /\ Emitted(s) <= 1
        /\ opts.Execute /\ worker[s].pc = "returned" =>
              (Emitted(s) = 1 <=>
                  /\ worker[s].err = "nil"
                  /\ worker[s].status = StatusOK \/ opts.IncludeError)

\* in execute mode one worker returned after its record and another after a dropped
\* 404 without one
C9_Witness ==
    /\ opts.Execute
    /\ \E s, u \in Seeds :
          /\ worker[s].pc = "returned" /\ worker[s].err = "nil" /\ Emitted(s) = 1
          /\ worker[u].pc = "returned" /\ worker[u].err = "nil" /\ Emitted(u) = 0
          /\ worker[u].status = StatusNotFound

\* C10: a worker whose network call failed with a transport error ends by returning
\* that error to the group
C10_TransportErrorIsReturned ==
    \A s \in Seeds :
        worker[s].rerr = "transport" =>
            worker[s].pc = "returned" /\ worker[s].err = "transport"

\* C11: when a worker has failed, _main returns only after every worker that was
\* started has finished, and what it returns is the first worker error the group kept,
\* never the cancellation error of the capacity acquisition
C11_FirstErrorAfterAllFinished ==
    [][mainRet = "none" /\ mainRet' # "none" /\ egErr # "nil" =>
           InFlight = {} /\ mainRet' = egErr]_vars

C13_OutputInProductionOrder ==
    opts.Parallelism = 1 =>
        \A i, j \in DOMAIN writers :
            i < j => writers[i] < writers[j] /\ output[i].Input <= output[j].Input

\* at parallelism 1 two seeds of two input records wrote their records one after the
\* other
C13_Witness ==
    /\ opts.Parallelism = 1
    /\ writers = <<0, 1>>
    /\ output[1].Input = 1
    /\ output[2].Input = 2

\* the errors the producer returns on its own
ProducerErrors == {"decode input", "not string", "url parse", "context canceled"}

\* C14: when the producer hits an unrecoverable error, _main returns only when no
\* worker is in flight any more, and the run ends with an error outcome
C14_ProducerErrorWaitsForWorkers ==
    [][mainRet = "none" /\ mainRet' \in ProducerErrors =>
           InFlight = {} /\ proc' = "crashed"]_vars

\* C15: once the shared context is cancelled, no worker comes out of rl.Take() into a
\* new network call, and a producer blocked in the capacity acquisition does not get
\* its unit and start a worker
C15_CancellationStopsNetworkCalls ==
    [][ctxDone =>
           /\ \A s \in Seeds : worker[s].pc = "take" => worker'[s].pc # "do"
           /\ ppc = "acquire_wait" => ppc' # "next"]_vars

\* C16: when backoff.Continue stops the retry loop, the worker ends by returning the
\* retry-exhausted error
C16_BackoffFailureIsReturned ==
    \A s \in Seeds :
        worker[s].rerr = "backoff finally failed" =>
            worker[s].pc = "returned" /\ worker[s].err = "backoff finally failed"

\* C17: while the process runs, the units held are exactly those of the workers that
\* were started and have not finished, whatever way the others finished: the free
\* capacity is Parallelism minus the unfinished workers, and all of it once none is left
C17_UnitsHeldAreUnfinishedWorkers ==
    Alive =>
        /\ semCur = Cardinality(InFlight)
        /\ opts.Parallelism - semCur >= 0

\* the producer waits for the group, one worker returned an error, another wrote its
\* record and a third dropped a 404, and every unit is free again
C17_Witness ==
    /\ Alive /\ ppc = "wait" /\ semCur = 0
    /\ \E s, u, v \in Seeds :
          /\ worker[s].pc = "returned" /\ worker[s].err # "nil"
          /\ worker[u].pc = "returned" /\ worker[u].err = "nil" /\ Emitted(u) = 1
          /\ worker[v].pc = "returned" /\ worker[v].err = "nil" /\ Emitted(v) = 0

\* C18: every network call of a worker, first attempt or retry, comes right after one
\* rl.Take() of its own by the same worker: a worker at the network call has taken
\* once more than it has called, and everywhere else as often as it has called
C18_EveryCallHasItsTake ==
    \A s \in Seeds :
        worker[s].took = worker[s].called + (IF worker[s].pc = "do" THEN 1 ELSE 0)

\* two workers at the network call, one of them for a retry, each after a take of its own
C18_Witness ==
    \E s, u \in Seeds :
        /\ s # u
        /\ worker[s].pc = "do" /\ worker[s].took = 2 /\ worker[s].called = 1
        /\ worker[u].pc = "do" /\ worker[u].took = 1 /\ worker[u].called = 0

\* C19: every diagnostic line a worker writes to the log stream is written while the
\* worker holds the lock of the log stream
C19_LogLinesUnderLock ==
    \A s \in Seeds : worker[s].log.line # "" => worker[s].log.locked

\* the process has ended
Terminated == proc \in {"exited", "crashed"}

====
